---- MODULE Spec2Model ----
(***************************************************************************)
(* gitissuehelper: `create` command (src/main.go).                         *)
(*                                                                         *)
(* One run of the process: runCreate reads its configuration from viper    *)
(* and the environment, validates it, builds an IssueCreator, resolves the *)
(* repository list (explicit --repos string, or the paginated listing of   *)
(* the organization), submits one create-issue request per repository,     *)
(* prints the summary and decides the exit code.  The GitHub service is    *)
(* the environment: each request is answered nondeterministically.         *)
(*                                                                         *)
(* Strings that the program only tests for emptiness or passes through     *)
(* (org, title, description, token) are TLA+ strings.  Strings that the    *)
(* program parses (--repos, --labels) and the repository names cut from    *)
(* them are sequences of Unicode code points (97 is a, 44 the comma).      *)
(***************************************************************************)
EXTENDS Integers, Sequences, FiniteSets, TLC

\* ------------------------------------------------------------------ bounds

\* Longest --repos string enumerated by Init.
MaxReposLen == 3
\* Most page requests the service lets one listing take: its answer to the
\* last of them is an error or "no further page".
MaxPages == 2

\* ----------------------------------------------------------------- inputs

\* Page size asked of the listing endpoint.
PerPage == 100

\* The characters of the enumerated strings: a, b, the comma, the space and
\* the form feed.
Chars == {97, 98, 44, 32, 12}

\* The spec's irregular-spacing example, "a, b ,c".
ExampleRepos == <<97, 44, 32, 98, 32, 44, 99>>

\* Every string over Chars of length 0..MaxReposLen, and the example.
ReposArgs ==
  UNION {[1..n -> Chars] : n \in 0..MaxReposLen} \cup {ExampleRepos}

\* --labels: absent, or "x, y".
LabelsArgs == {<<>>, <<120, 44, 32, 121>>}

\* What a successful listing page can hold: nothing, one name, two names in
\* non-alphabetical order.  A name may come back on several pages.
RepoA == <<97>>
RepoB == <<98>>
Pages == {<<>>, <<RepoA>>, <<RepoB, RepoA>>}

\* resp.NextPage: 0 for "no further page", or the page the service names.
NextPages == {0, 2, 7}

\* The error runCreate returns (nil is "").
ErrNone == ""
ErrValidation == "missing required arguments"
ErrInitialize == "failed to initialize"
ErrFetch == "failed to fetch repositories"
ErrEmpty == "no repositories found"

\* exitCode before the process has exited.
Running == -1

NoCreator == [token |-> "", org |-> "", title |-> "", desc |-> "",
              labels |-> <<>>, built |-> FALSE]

\* ------------------------------------------------------- string functions

\* unicode.IsSpace, the test strings.TrimSpace applies to each rune: \t, \n,
\* \v, \f, \r, the space, U+0085, U+00A0, and the other code points with the
\* White_Space property (U+1680, U+2000..U+200A, U+2028, U+2029, U+202F,
\* U+205F, U+3000).
IsSpace(c) ==
  \/ c \in 9..13
  \/ c \in {32, 133, 160, 5760}
  \/ c \in 8192..8202
  \/ c \in {8232, 8233, 8239, 8287, 12288}

RECURSIVE TrimLeft(_)
TrimLeft(s) ==
  IF s # <<>> /\ IsSpace(Head(s)) THEN TrimLeft(Tail(s)) ELSE s

RECURSIVE TrimRight(_)
TrimRight(s) ==
  IF s # <<>> /\ IsSpace(s[Len(s)])
  THEN TrimRight(SubSeq(s, 1, Len(s) - 1))
  ELSE s

\* A plausible slip: only leading whitespace is stripped.
TrimSpaceLeftOnly(s) == TrimLeft(s)

\* strings.TrimSpace
TrimSpace(s) == TrimRight(TrimLeft(s))

\* strings.Split(s, ","): n separators give n+1 segments, empty ones kept.
RECURSIVE Split(_)
Split(s) ==
  IF \A i \in 1..Len(s) : s[i] # 44
  THEN <<s>>
  ELSE LET i == CHOOSE k \in 1..Len(s) :
                  s[k] = 44 /\ \A j \in 1..(k - 1) : s[j] # 44
       IN  <<SubSeq(s, 1, i - 1)>> \o Split(SubSeq(s, i + 1, Len(s)))

\* Split, then trim every element in place (main.go 144-148, 160-164).
SplitAndTrim(s) ==
  LET parts == Split(s)
  IN  [i \in 1..Len(parts) |-> TrimSpace(parts[i])]

\* ------------------------------------------------------------------ state

VARIABLES
  viper,      \* the configuration registry: org, title, description, repos, labels, token
  environ,    \* the value of GITHUB_TOKEN ("" when unset)
  pc,         \* where the process is
  token,      \* runCreate's local token
  envRead,    \* os.Getenv("GITHUB_TOKEN") has been called
  labelList,  \* runCreate's labelList
  creator,    \* the IssueCreator (NoCreator until built)
  opts,       \* GetAllRepositories: opts.Page
  repos,      \* GetAllRepositories: the names gathered so far
  repoList,   \* runCreate's repoList
  idx,        \* CreateIssuesInRepositories: position of the range loop
  success,    \* CreateIssuesInRepositories: success
  failed,     \* CreateIssuesInRepositories: failed
  requests,   \* every request sent to the service, in order
  responses,  \* the service's answer to each request
  stdout,     \* the lines printed
  err,        \* the error runCreate returned
  exitCode    \* the process exit code (Running until it exits)

vars == <<viper, environ, pc, token, envRead, labelList, creator, opts, repos,
          repoList, idx, success, failed, requests, responses, stdout, err,
          exitCode>>

Init ==
  /\ viper \in [org : {"", "acme"}, title : {"", "T"}, description : {"", "D"},
                repos : ReposArgs, labels : LabelsArgs, token : {"", "flagtok"}]
  /\ environ \in {"", "envtok"}
  /\ pc = "runCreate"
  /\ token = ""
  /\ envRead = FALSE
  /\ labelList = <<>>
  /\ creator = NoCreator
  /\ opts = 0
  /\ repos = <<>>
  /\ repoList = <<>>
  /\ idx = 0
  /\ success = 0
  /\ failed = 0
  /\ requests = <<>>
  /\ responses = <<>>
  /\ stdout = <<>>
  /\ err = ErrNone
  /\ exitCode = Running

\* ---------------------------------------------------------------- helpers

\* A plausible slip: only the organization is checked.
MissingRequiredOrgOnly(org, title, desc) == org = ""

\* main.go 132: a required field is empty.
MissingRequired(org, title, desc) == org = "" \/ title = "" \/ desc = ""

\* A plausible slip: the empty-token check is left out.
NewIssueCreatorUnchecked(tok, org, title, desc, labels) ==
  [err |-> FALSE,
   ic  |-> [token |-> tok, org |-> org, title |-> title, desc |-> desc,
            labels |-> labels, built |-> TRUE]]

\* NewIssueCreator: (nil, error) on an empty token, else the IssueCreator.
NewIssueCreator(tok, org, title, desc, labels) ==
  IF tok = ""
  THEN [err |-> TRUE, ic |-> NoCreator]
  ELSE [err |-> FALSE,
        ic  |-> [token |-> tok, org |-> org, title |-> title, desc |-> desc,
                 labels |-> labels, built |-> TRUE]]

\* A plausible slip: the listing is always used.
UseExplicitNever(r) == FALSE

\* main.go 158: an explicit list was given.
UseExplicit(r) == r # <<>>

\* A plausible slip: a page is put in front of the names gathered so far.
AppendPagePrepend(rs, names) == names \o rs

\* main.go 61-63: append the page's names, in the order received.
AppendPage(rs, names) == rs \o names

\* A plausible slip: the names gathered so far are returned with the error.
FetchFailedPartial(rs) == rs

\* main.go 58: return nil with the error.
FetchFailed(rs) == <<>>

\* main.go 65-68: the service named a further page.
MorePages(next) == next # 0

\* A plausible slip: an empty list goes on to the batch.
NoRepositoriesNever(list) == FALSE

\* main.go 174
NoRepositories(list) == Len(list) = 0

\* A plausible slip: a failure is not counted.
CountFailedDropped(f, ok) == f

\* main.go 97-99: failed++ on an error.
CountFailed(f, ok) == IF ok THEN f ELSE f + 1

\* main.go 100-102: success++ otherwise.
CountSuccess(s, ok) == IF ok THEN s + 1 ELSE s

\* A plausible slip: the loop breaks at the first failure.
AdvanceFailFast(i, ok, n) == IF ok THEN i + 1 ELSE n + 1

\* main.go 95: the range loop moves to the next entry whatever the outcome.
Advance(i, ok, n) == i + 1

\* A plausible slip: failures do not change the exit code.
ExitAfterBatchAlwaysZero(f) == FALSE

\* main.go 189-191: os.Exit(1) after the summary when a submission failed.
ExitAfterBatch(f) == f > 0

\* The request CreateIssue sends for a repository (main.go 76-82).
CreateRequest(ic, repo) ==
  [op |-> "Create", token |-> ic.token, org |-> ic.org, repo |-> repo,
   title |-> ic.title, body |-> ic.desc, labels |-> ic.labels]

\* The request ListByOrg sends for a page (main.go 50-56).
ListRequest(ic, page) ==
  [op |-> "ListByOrg", token |-> ic.token, org |-> ic.org,
   perPage |-> PerPage, page |-> page]

ListRequests == SelectSeq(requests, LAMBDA r : r.op = "ListByOrg")
CreateRequests == SelectSeq(requests, LAMBDA r : r.op = "Create")
ListResponses == SelectSeq(responses, LAMBDA r : r.op = "ListByOrg")
CreateResponses == SelectSeq(responses, LAMBDA r : r.op = "Create")

\* ---------------------------------------------------------------- actions

\* runCreate, main.go 124-134: read the configuration, validate the required
\* fields.
Validate ==
  /\ pc = "runCreate"
  /\ token' = viper.token
  /\ IF MissingRequired(viper.org, viper.title, viper.description)
     THEN /\ err' = ErrValidation
          /\ pc' = "returned"
     ELSE /\ err' = err
          /\ pc' = "validated"
  /\ UNCHANGED <<viper, environ, envRead, labelList, creator, opts, repos,
                 repoList, idx, success, failed, requests, responses, stdout,
                 exitCode>>

\* runCreate, main.go 136-154: resolve the token, parse the labels, build the
\* IssueCreator.
Initialize ==
  /\ pc = "validated"
  /\ LET tok    == IF token = "" THEN environ ELSE token
         labels == IF viper.labels # <<>> THEN SplitAndTrim(viper.labels)
                   ELSE <<>>
         made   == NewIssueCreator(tok, viper.org, viper.title,
                                   viper.description, labels)
     IN  /\ token' = tok
         /\ envRead' = (token = "")
         /\ labelList' = labels
         /\ IF made.err
            THEN /\ err' = ErrInitialize
                 /\ pc' = "returned"
                 /\ creator' = creator
            ELSE /\ err' = err
                 /\ pc' = "select"
                 /\ creator' = made.ic
  /\ UNCHANGED <<viper, environ, opts, repos, repoList, idx, success, failed,
                 requests, responses, stdout, exitCode>>

\* runCreate, main.go 157-167 and GetAllRepositories, main.go 50-54: take the
\* explicit list, or start the listing.
SelectRepositories ==
  /\ pc = "select"
  /\ IF UseExplicit(viper.repos)
     THEN /\ repoList' = SplitAndTrim(viper.repos)
          /\ pc' = "resolved"
          /\ UNCHANGED <<opts, repos, stdout>>
     ELSE /\ stdout' = Append(stdout, [kind |-> "fetching", org |-> viper.org])
          /\ opts' = 0
          /\ repos' = <<>>
          /\ pc' = "listing"
          /\ UNCHANGED repoList
  /\ UNCHANGED <<viper, environ, token, envRead, labelList, creator, idx,
                 success, failed, requests, responses, err, exitCode>>

\* What the service may answer to the next page request: an error, or a page
\* and the number of the next one.
ListAnswers ==
  LET last == Len(ListRequests) + 1 >= MaxPages
  IN  {[op |-> "ListByOrg", err |-> TRUE, names |-> <<>>, next |-> 0]}
      \cup {[op |-> "ListByOrg", err |-> FALSE, names |-> p, next |-> n] :
              p \in Pages, n \in IF last THEN {0} ELSE NextPages}

\* GetAllRepositories, main.go 55-71, one turn of the loop, and runCreate,
\* main.go 168-172, when it returns.
ListByOrg ==
  /\ pc = "listing"
  /\ \E resp \in ListAnswers :
       /\ requests' = Append(requests, ListRequest(creator, opts))
       /\ responses' = Append(responses, resp)
       /\ IF resp.err
          THEN /\ repos' = FetchFailed(repos)
               /\ repoList' = repos'
               /\ err' = ErrFetch
               /\ pc' = "returned"
               /\ opts' = opts
          ELSE /\ repos' = AppendPage(repos, resp.names)
               /\ err' = err
               /\ IF MorePages(resp.next)
                  THEN /\ opts' = resp.next
                       /\ pc' = "listing"
                       /\ repoList' = repoList
                  ELSE /\ opts' = opts
                       /\ pc' = "resolved"
                       /\ repoList' = repos'
  /\ UNCHANGED <<viper, environ, token, envRead, labelList, creator, idx,
                 success, failed, stdout, exitCode>>

\* runCreate, main.go 174-182 and CreateIssuesInRepositories, main.go 92-93:
\* refuse an empty list, else print the header and enter the batch.
CheckRepositories ==
  /\ pc = "resolved"
  /\ IF NoRepositories(repoList)
     THEN /\ err' = ErrEmpty
          /\ pc' = "returned"
          /\ UNCHANGED <<stdout, idx, success, failed>>
     ELSE /\ stdout' = Append(stdout,
                              [kind |-> "header", org |-> viper.org,
                               title |-> viper.title, count |-> Len(repoList)])
          /\ idx' = 1
          /\ success' = 0
          /\ failed' = 0
          /\ pc' = "batch"
          /\ err' = err
  /\ UNCHANGED <<viper, environ, token, envRead, labelList, creator, opts,
                 repos, repoList, requests, responses, exitCode>>

\* CreateIssuesInRepositories, main.go 95-104, one turn of the loop, with the
\* call of CreateIssue, main.go 75-88.
CreateIssue ==
  /\ pc = "batch"
  /\ idx <= Len(repoList)
  /\ \E ok \in BOOLEAN :
       /\ requests' = Append(requests, CreateRequest(creator, repoList[idx]))
       /\ responses' = Append(responses, [op |-> "Create", err |-> ~ok])
       /\ stdout' = Append(stdout, [kind |-> "progress", org |-> creator.org,
                                    repo |-> repoList[idx], ok |-> ok])
       /\ success' = CountSuccess(success, ok)
       /\ failed' = CountFailed(failed, ok)
       /\ idx' = Advance(idx, ok, Len(repoList))
  /\ UNCHANGED <<viper, environ, pc, token, envRead, labelList, creator, opts,
                 repos, repoList, err, exitCode>>

\* CreateIssuesInRepositories returns, main.go 106; runCreate prints the
\* summary, main.go 184-187.
Summary ==
  /\ pc = "batch"
  /\ idx > Len(repoList)
  /\ stdout' = Append(stdout, [kind |-> "summary", success |-> success,
                               failed |-> failed])
  /\ pc' = "summary"
  /\ UNCHANGED <<viper, environ, token, envRead, labelList, creator, opts,
                 repos, repoList, idx, success, failed, requests, responses,
                 err, exitCode>>

\* runCreate, main.go 189-193: os.Exit(1) when a submission failed, else
\* return nil.
Decide ==
  /\ pc = "summary"
  /\ IF ExitAfterBatch(failed)
     THEN /\ exitCode' = 1
          /\ pc' = "exited"
     ELSE /\ exitCode' = exitCode
          /\ pc' = "returned"
  /\ UNCHANGED <<viper, environ, token, envRead, labelList, creator, opts,
                 repos, repoList, idx, success, failed, requests, responses,
                 stdout, err>>

\* main, main.go 221-225: log.Fatalf (exit status 1) on an error, else the
\* process ends with status 0.
Main ==
  /\ pc = "returned"
  /\ exitCode' = IF err # ErrNone THEN 1 ELSE 0
  /\ pc' = "exited"
  /\ UNCHANGED <<viper, environ, token, envRead, labelList, creator, opts,
                 repos, repoList, idx, success, failed, requests, responses,
                 stdout, err>>

Next ==
  \/ Validate
  \/ Initialize
  \/ SelectRepositories
  \/ ListByOrg
  \/ CheckRepositories
  \/ CreateIssue
  \/ Summary
  \/ Decide
  \/ Main

Spec == Init /\ [][Next]_vars

\* The process keeps running until it exits, and the service answers every
\* request.
FairSpec == Spec /\ WF_vars(Next)

\* ------------------------------------------------- vocabulary of the claims

\* The repository each create-issue request went to, in request order.
RequestedRepos == [i \in 1..Len(CreateRequests) |-> CreateRequests[i].repo]

\* Submissions the service accepted / refused.
Accepted == Len(SelectSeq(CreateResponses, LAMBDA r : ~r.err))
Refused == Len(SelectSeq(CreateResponses, LAMBDA r : r.err))

\* CreateIssuesInRepositories was entered / has returned.
BatchEntered == idx >= 1
BatchReturned == BatchEntered /\ pc \in {"summary", "returned", "exited"}

\* The summary line with both counts is on stdout.
SummaryPrinted ==
  \E i \in 1..Len(stdout) :
    /\ stdout[i].kind = "summary"
    /\ stdout[i].success = Accepted
    /\ stdout[i].failed = Refused

\* Neither --token nor GITHUB_TOKEN yields a token.
NoToken == viper.token = "" /\ environ = ""

\* One of organization, title, description is empty.
AnyRequiredEmpty == viper.org = "" \/ viper.title = "" \/ viper.description = ""

\* The listing ended with a page that named no further page.
ListingDone ==
  /\ Len(ListResponses) > 0
  /\ ~ListResponses[Len(ListResponses)].err
  /\ ListResponses[Len(ListResponses)].next = 0

\* The explicit list has been taken.
ExplicitDone == creator.built /\ viper.repos # <<>> /\ pc # "select"

\* A page request failed.
PageFailed == \E i \in 1..Len(ListResponses) : ListResponses[i].err

\* The names of all pages received, page after page.
RECURSIVE Flatten(_)
Flatten(rs) == IF rs = <<>> THEN <<>> ELSE Head(rs).names \o Flatten(Tail(rs))

\* The comma-separated segments of s with surrounding whitespace removed,
\* stated by positions: segment k runs between the (k-1)-th and the k-th
\* comma, and keeps what lies from its first to its last non-blank character.
Commas(s) == {p \in 1..Len(s) : s[p] = 44}
CommaAt(s, k) ==
  IF k = 0 THEN 0
  ELSE IF k > Cardinality(Commas(s)) THEN Len(s) + 1
  ELSE CHOOSE p \in Commas(s) : Cardinality({q \in Commas(s) : q <= p}) = k
\* The code points with the Unicode White_Space property.
Blanks ==
  {9, 10, 11, 12, 13, 32, 133, 160, 5760, 8192, 8193, 8194, 8195, 8196, 8197,
   8198, 8199, 8200, 8201, 8202, 8232, 8233, 8239, 8287, 12288}
Inked(s, lo, hi) == {p \in lo..hi : s[p] \notin Blanks}
Lowest(S) == CHOOSE p \in S : \A q \in S : p <= q
Highest(S) == CHOOSE p \in S : \A q \in S : q <= p
TrimmedSegment(s, k) ==
  LET ink == Inked(s, CommaAt(s, k - 1) + 1, CommaAt(s, k) - 1)
  IN  IF ink = {} THEN <<>> ELSE SubSeq(s, Lowest(ink), Highest(ink))
TrimmedSegments(s) ==
  [k \in 1..(Cardinality(Commas(s)) + 1) |-> TrimmedSegment(s, k)]

\* The phases of a run.
Phase ==
  CASE pc = "runCreate" -> "Unconfigured"
    [] pc \in {"validated", "select"} -> "Validated"
    [] pc = "listing" -> "Listing"
    [] pc = "resolved" -> IF ListRequests = <<>> THEN "Validated" ELSE "Listing"
    [] pc = "batch" -> "Submitting"
    [] pc = "summary" -> "Reported"
    [] OTHER -> IF err # ErrNone THEN "Aborted" ELSE "Reported"

\* The moves from one phase to the next.
Forward ==
  {<<"Unconfigured", "Validated">>, <<"Unconfigured", "Aborted">>,
   <<"Validated", "Listing">>, <<"Validated", "Submitting">>,
   <<"Validated", "Aborted">>, <<"Listing", "Submitting">>,
   <<"Listing", "Aborted">>, <<"Submitting", "Reported">>}

\* ----------------------------------------------------------------- claims

\* C1: when CreateIssuesInRepositories has returned, success + failed is the
\* length of the list, success is the number of submissions the service
\* accepted and failed the number it refused; inside the loop the two counts
\* add up to the entries already handled.
C1_CountsAddUp ==
  /\ pc = "batch" =>
       /\ success + failed = idx - 1
       /\ success = Accepted
       /\ failed = Refused
  /\ BatchReturned =>
       /\ success + failed = Len(repoList)
       /\ success = Accepted
       /\ failed = Refused

\* C1 witness: a finished batch with both outcomes.
C1_Witness == BatchReturned /\ success >= 1 /\ failed >= 1

\* C2: the create-issue requests are the entries of the repository list, one
\* each, in list order: the entries already handled while the loop runs, the
\* whole list once it has returned, whatever the outcomes.
C2_RequestsFollowList ==
  /\ ~BatchEntered => CreateRequests = <<>>
  /\ pc = "batch" =>
       /\ idx <= Len(repoList) + 1
       /\ RequestedRepos = SubSeq(repoList, 1, idx - 1)
  /\ BatchReturned => RequestedRepos = repoList

\* C2 witness: a finished batch over a list with a repeated name whose first
\* submission was refused.
C2_Witness ==
  /\ BatchReturned
  /\ Len(repoList) >= 2
  /\ repoList[1] = repoList[2]
  /\ CreateResponses[1].err
  /\ ~CreateResponses[2].err

\* C3: the exit code is 0 exactly when the batch ran and no submission was
\* refused, 1 when a submission was refused or runCreate returned an error;
\* once the batch ran, no exit code is set before the summary line is out.
C3_ExitCode ==
  /\ pc = "exited" =>
       /\ exitCode \in {0, 1}
       /\ exitCode = 0 <=> (BatchEntered /\ Refused = 0)
       /\ Refused > 0 => exitCode = 1
       /\ err # ErrNone => exitCode = 1 /\ ~BatchEntered
  /\ pc # "exited" => exitCode = Running
  /\ (BatchEntered /\ exitCode # Running) => SummaryPrinted
  /\ pc = "summary" => SummaryPrinted

\* C3 witness: a run that exited 1 although a submission was accepted.
C3_Witness ==
  pc = "exited" /\ exitCode = 1 /\ Accepted >= 1 /\ Refused >= 1

\* C4 as stated: with no token from the flag or the environment, the run ends
\* with the configuration error of the IssueCreator's construction, and no
\* request is sent.
C4_AsStated ==
  /\ NoToken => requests = <<>>
  /\ (NoToken /\ pc \in {"returned", "exited"}) => err = ErrInitialize

\* C4 amended: with no token, no request is ever sent and the run fails; the
\* failure is the configuration error of the construction when organization,
\* title and description are all non-empty, and the validation error, before
\* any construction, when one of them is empty.
C4_NoTokenNoNetwork ==
  /\ NoToken => requests = <<>> /\ ~creator.built
  /\ (NoToken /\ pc \in {"returned", "exited"}) =>
       err = IF AnyRequiredEmpty THEN ErrValidation ELSE ErrInitialize
  /\ (NoToken /\ pc = "exited") => exitCode = 1

\* C4 witness: a run with the required fields and no token, ended by the
\* construction's error after the environment was consulted.
C4_Witness ==
  /\ NoToken /\ ~AnyRequiredEmpty
  /\ pc = "exited" /\ err = ErrInitialize /\ envRead

\* C5: with an empty organization, title or description the run ends with
\* the validation error; the environment is never consulted for a token, no
\* IssueCreator is built and no request is sent, whatever the other inputs.
C5_ValidationFirst ==
  AnyRequiredEmpty =>
    /\ pc \in {"runCreate", "returned", "exited"}
    /\ pc # "runCreate" => err = ErrValidation
    /\ pc = "exited" => exitCode = 1
    /\ ~envRead
    /\ ~creator.built
    /\ requests = <<>>

\* C5 witness: only the title is empty, a token and an explicit list are
\* given, and the run has ended.
C5_Witness ==
  /\ viper.org # "" /\ viper.title = "" /\ viper.description # ""
  /\ viper.token # "" /\ viper.repos # <<>>
  /\ pc = "exited"

\* C6: once the repository list is resolved and empty, the run ends with the
\* empty-target error and no create-issue request is sent.
C6_EmptyTarget ==
  ((ListingDone \/ ExplicitDone) /\ Len(repoList) = 0) =>
    /\ pc \in {"resolved", "returned", "exited"}
    /\ pc # "resolved" => err = ErrEmpty
    /\ pc = "exited" => exitCode = 1
    /\ CreateRequests = <<>>
    /\ ~BatchEntered

\* C6 witness: the listing of an organization without repositories took two
\* pages, and the run has ended with the empty-target error.
C6_Witness ==
  /\ ListingDone /\ Len(ListResponses) = 2 /\ Len(repoList) = 0
  /\ pc = "exited" /\ err = ErrEmpty

\* C7: once a page request has failed, GetAllRepositories has returned the
\* error and no names, and the run ends with the fetch error without any
\* create-issue request.
C7_FetchAllOrNothing ==
  PageFailed =>
    /\ ListResponses[Len(ListResponses)].err
    /\ repos = <<>>
    /\ repoList = <<>>
    /\ pc \in {"returned", "exited"}
    /\ err = ErrFetch
    /\ pc = "exited" => exitCode = 1
    /\ CreateRequests = <<>>

\* C7 witness: the second page request failed after a first page with names.
C7_Witness ==
  /\ Len(ListResponses) = 2
  /\ ~ListResponses[1].err /\ ListResponses[1].names # <<>>
  /\ ListResponses[2].err
  /\ pc = "exited"

\* C8: an explicit --repos string resolves to its comma-separated segments,
\* trimmed, in order, repeats kept ("a, b ,c" to a, b, c); no page is ever
\* requested, and the batch submits to exactly that list.
C8_ExplicitList ==
  /\ ExplicitDone =>
       /\ repoList = TrimmedSegments(viper.repos)
       /\ ListRequests = <<>>
       /\ BatchReturned => RequestedRepos = TrimmedSegments(viper.repos)
  /\ (ExplicitDone /\ viper.repos = ExampleRepos) =>
       repoList = <<<<97>>, <<98>>, <<99>>>>
  /\ viper.repos # <<>> => ListRequests = <<>>

\* C8 witness: the example string, submitted to a, b, c.
C8_Witness ==
  /\ viper.repos = ExampleRepos
  /\ BatchReturned
  /\ RequestedRepos = <<<<97>>, <<98>>, <<99>>>>

\* What holds of the listing in every state (the safety part of C9).
C9_Listing ==
  /\ Len(ListRequests) = Len(ListResponses)
  /\ Len(ListRequests) >= 1 => ListRequests[1].page = 0
  /\ \A i \in 2..Len(ListRequests) :
       /\ ListRequests[i].page = ListResponses[i - 1].next
       /\ ~ListResponses[i - 1].err
       /\ ListResponses[i - 1].next # 0
  /\ pc = "listing" =>
       /\ ~PageFailed
       /\ ~ListingDone
       /\ repos = Flatten(ListResponses)
  /\ (pc # "listing" /\ ListResponses # <<>> /\ ~PageFailed) =>
       /\ ListingDone
       /\ repos = Flatten(ListResponses)
       /\ repoList = Flatten(ListResponses)

\* C9: GetAllRepositories asks for the page the service named until a page
\* names none, then stops and returns the names of all pages in the order
\* received; with a service that names no further page after finitely many,
\* the listing ends.
C9_Pagination == []C9_Listing /\ ((pc = "listing") ~> (pc # "listing"))

\* C9 witness: two pages, the second the one the first named, with a name
\* returned twice and out of alphabetical order.
C9_Witness ==
  /\ Len(ListResponses) = 2 /\ ~PageFailed
  /\ ListResponses[1].next = 7 /\ ListRequests[2].page = 7
  /\ repoList = <<RepoB, RepoA, RepoA>>
  /\ pc = "exited"

\* What holds of the phases in every state (part of C10).
C10_Phases ==
  /\ Phase = "Listing" => viper.repos = <<>>
  /\ CreateRequests # <<>> =>
       /\ Phase \in {"Submitting", "Reported"}
       /\ ListRequests # <<>> => ListingDone
  /\ pc = "exited" =>
       \/ Phase = "Reported" /\ exitCode = 0 /\ Refused = 0
       \/ Phase = "Reported" /\ exitCode = 1 /\ Refused > 0
       \/ Phase = "Aborted" /\ exitCode = 1 /\ CreateRequests = <<>>

\* C10: every step stays in its phase or moves forward along Unconfigured,
\* Validated, Listing (only without an explicit list), Submitting, Reported,
\* or to the abort; no request to create an issue precedes the end of the
\* listing; and every run ends, as a clean report, a failing report or an
\* abort.
C10_ForwardOnly ==
  /\ [][Phase' = Phase \/ <<Phase, Phase'>> \in Forward]_vars
  /\ []C10_Phases
  /\ <>(pc = "exited")

\* C10 witness: a run that went through the listing and reported.
C10_Witness ==
  /\ pc = "exited" /\ Phase = "Reported"
  /\ ListRequests # <<>> /\ CreateRequests # <<>>

====
